---- MODULE Spec2Model ----
(***************************************************************************)
(* Model of generateXsd (xsdGenerator.js): the DOM document handed back by *)
(* the tree parser, the recursive processNode traversal that fills the     *)
(* elementInfo / elementOrder maps, and the two emission passes that build *)
(* xsdString.                                                              *)
(*                                                                         *)
(* A document is a sequence of DOM nodes in document (pre-)order; every    *)
(* node names its parent, so childNodes of a node is the ordered list of   *)
(* the nodes that name it.  JavaScript Map and Set keep insertion order    *)
(* and are modelled as duplicate-free sequences.  Strings the code only    *)
(* concatenates are sequences of chunks, one line of output per element of *)
(* xsdString.                                                              *)
(***************************************************************************)
EXTENDS Naturals, Sequences, FiniteSets, TLC

-----------------------------------------------------------------------------
(* Bounds of the model *)

\* Size of a parsed document: number of nodes plus number of attributes.
MaxSize == 4
\* Length, in chunks, of a parser diagnostic (a chunk is a newline or a
\* run of text).
MaxDiagLen == 3
\* Number of nodes of a document, and length of a diagnostic, in a sequence
\* of calls.
MaxCallSize == 2
\* Number of files being read at the same time.
MaxReaders == 1

-----------------------------------------------------------------------------
(* DOM vocabulary *)

ELEMENT_NODE == 1
TEXT_NODE == 3

Tags == {"a", "b", "c"}
AttrLists == {<<>>, <<"p">>, <<"q">>, <<"p", "q">>, <<"q", "p">>}
TextValues == {<<" ">>, <<" ", "x", " ">>}

Range(s) == {s[i] : i \in 1..Len(s)}

ElementNodes(par) ==
    {[nodeType |-> ELEMENT_NODE, tagName |-> t, attributes |-> al,
      nodeValue |-> <<>>, parent |-> par] : t \in Tags, al \in AttrLists}

TextNodes(par) ==
    {[nodeType |-> TEXT_NODE, tagName |-> "#text", attributes |-> <<>>,
      nodeValue |-> v, parent |-> par] : v \in TextValues}

\* Node.COMMENT_NODE, one of the node types processNode skips
CommentNodes(par) ==
    {[nodeType |-> 8, tagName |-> "#comment", attributes |-> <<>>,
      nodeValue |-> <<"x">>, parent |-> par]}

NodeWeight(n) == 1 + Len(n.attributes)

RECURSIVE DocSize(_)
DocSize(nodes) ==
    IF nodes = <<>> THEN 0 ELSE NodeWeight(Head(nodes)) + DocSize(Tail(nodes))

RECURSIVE AncestorsOrSelf(_, _)
AncestorsOrSelf(nodes, i) ==
    IF i = 0 THEN {} ELSE {i} \cup AncestorsOrSelf(nodes, nodes[i].parent)

\* The elements still open after the last node of a document prefix: the
\* only nodes the next node in document order can be a child of.
OpenElements(nodes) ==
    {j \in AncestorsOrSelf(nodes, Len(nodes)) : nodes[j].nodeType = ELEMENT_NODE}

\* The nodes the parser may append next, in document order, within the bound
NextNodes(nodes) ==
    {m \in (IF nodes = <<>> THEN ElementNodes(0)
            ELSE UNION {ElementNodes(p) \cup TextNodes(p) \cup CommentNodes(p) :
                           p \in OpenElements(nodes)}) :
        DocSize(nodes) + NodeWeight(m) <= MaxSize}

\* node.childNodes
ChildNodes(nodes, i) ==
    LET ids == {j \in 1..Len(nodes) : nodes[j].parent = i}
        RECURSIVE Asc(_, _)
        Asc(from, acc) ==
            IF from > Len(nodes) THEN acc
            ELSE Asc(from + 1, IF from \in ids THEN Append(acc, from) ELSE acc)
    IN Asc(1, <<>>)

-----------------------------------------------------------------------------
(* What DOMParser.parseFromString hands back *)

DiagChunks == {"Simulated error", "Details here", "\n"}

RECURSIVE SeqsOfLen(_, _)
SeqsOfLen(S, k) ==
    IF k = 0 THEN {<<>>}
    ELSE {Append(s, x) : s \in SeqsOfLen(S, k - 1), x \in S}

\* A diagnostic carries at least one line of human-readable detail.
DiagTexts ==
    {d \in UNION {SeqsOfLen(DiagChunks, k) : k \in 1..MaxDiagLen} :
        \E i \in 1..Len(d) : d[i] # "\n"}

\* xmlDoc.querySelector("parsererror") is an element with this textContent,
\* or null (isError false); xmlDoc.documentElement is nodes[1], or null when
\* nodes is empty.
NoDoc == [isError |-> FALSE, textContent |-> <<>>, nodes |-> <<>>]

-----------------------------------------------------------------------------
(* JavaScript Map, Set and Array, all insertion-ordered *)

\* Array.prototype.includes / Set.prototype.has
Includes(s, x) == \E i \in 1..Len(s) : s[i] = x

\* Set.prototype.add
SetAdd(s, x) == IF Includes(s, x) THEN s ELSE Append(s, x)

\* new Set([...xs, ...ys])
RECURSIVE SetAddAll(_, _)
SetAddAll(s, xs) ==
    IF xs = <<>> THEN s ELSE SetAddAll(SetAdd(s, Head(xs)), Tail(xs))

\* A Map is the sequence of its entries [key, value] in insertion order.
MapHas(m, k) == \E i \in 1..Len(m) : m[i].key = k

MapGet(m, k) == m[CHOOSE i \in 1..Len(m) : m[i].key = k].value

\* Variant: an update deletes the entry and inserts it again, at the end
MapSetReinsert(m, k, v) ==
    LET RECURSIVE Without(_)
        Without(r) ==
            IF r = <<>> THEN <<>>
            ELSE (IF Head(r).key = k THEN <<>> ELSE <<Head(r)>>) \o Without(Tail(r))
    IN Append(Without(m), [key |-> k, value |-> v])

\* Variant: an array of entries instead of a Map, every set appends
MapSetAppend(m, k, v) == Append(m, [key |-> k, value |-> v])

MapSet(m, k, v) ==
    IF MapHas(m, k)
    THEN [i \in 1..Len(m) |-> IF m[i].key = k THEN [key |-> k, value |-> v] ELSE m[i]]
    ELSE Append(m, [key |-> k, value |-> v])

\* String.prototype.trim over a text of one-character chunks
RECURSIVE TrimStart(_)
TrimStart(v) ==
    IF v # <<>> /\ Head(v) \in {" ", "\n", "\t"} THEN TrimStart(Tail(v)) ELSE v

RECURSIVE TrimEnd(_)
TrimEnd(v) ==
    IF v # <<>> /\ v[Len(v)] \in {" ", "\n", "\t"}
    THEN TrimEnd(SubSeq(v, 1, Len(v) - 1)) ELSE v

Trim(v) == TrimEnd(TrimStart(v))

\* String.prototype.split("\n"): the lines of a text, at least one
RECURSIVE SplitLines(_, _, _)
SplitLines(text, cur, acc) ==
    IF text = <<>> THEN Append(acc, cur)
    ELSE IF Head(text) = "\n" THEN SplitLines(Tail(text), <<>>, Append(acc, cur))
    ELSE SplitLines(Tail(text), Append(cur, Head(text)), acc)

Split(text) == SplitLines(text, <<>>, <<>>)

-----------------------------------------------------------------------------
(* State of one generateXsd call *)

VARIABLES
    pc,            \* position in generateXsd
    xmlDoc,        \* parser.parseFromString(xmlString, ...)
    elementInfo,   \* Map elementName -> {attributes, children, hasTextContent}
    elementOrder,  \* Map elementName -> string[]
    stack,         \* activation records of processNode, innermost last
    emitIdx,       \* position of the emission loop in elementInfo
    xsdString,     \* the schema text built so far, one line per element
    consoleError,  \* arguments of the console.error calls made
    thrown,        \* message of the Error thrown, <<>> if none
    result,        \* the returned string, <<>> before the return
    visited,       \* history: the element nodes processNode has entered, in order
    calls,         \* history of a sequence of generateXsd calls
    ui             \* XmlToXsdConverter: the React state and the pending callbacks

vars == <<pc, xmlDoc, elementInfo, elementOrder, stack, emitIdx, xsdString,
          consoleError, thrown, result, visited, calls, ui>>

\* No call has returned yet.
NoCalls == [phase |-> "first", firstDoc |-> NoDoc, firstThrown |-> <<>>,
            firstResult |-> <<>>, betweenDoc |-> NoDoc]

\* useState('') four times, useState(false); no timeout and no FileReader
\* is pending.  timeouts holds the xmlInput each pending callback of
\* handleConvert closed over, readers the text of each file being read;
\* convertedInput is history: the input xsdOutput was generated from.
InitialUi ==
    [xmlInput |-> <<>>, xsdOutput |-> <<>>, error |-> <<>>, isLoading |-> FALSE,
     copyStatus |-> <<>>, timeouts |-> <<>>, readers |-> <<>>,
     convertedInput |-> <<>>]

Init ==
    /\ pc = "parsing"
    /\ xmlDoc = NoDoc
    /\ elementInfo = <<>>
    /\ elementOrder = <<>>
    /\ stack = <<>>
    /\ emitIdx = 0
    /\ xsdString = <<>>
    /\ consoleError = <<>>
    /\ thrown = <<>>
    /\ result = <<>>
    /\ visited = <<>>
    /\ calls = NoCalls
    /\ ui = InitialUi

-----------------------------------------------------------------------------
(* parser.parseFromString(xmlString, "application/xml"), for whatever       *)
(* xmlString the caller passes: the parser appends the nodes it reads in   *)
(* document order, and ends with a document or with a parsererror.         *)

ParseNode ==
    /\ pc = "parsing"
    /\ \E n \in NextNodes(xmlDoc.nodes) :
          xmlDoc' = [xmlDoc EXCEPT !.nodes = Append(@, n)]
    /\ UNCHANGED <<ui, calls, visited, pc, elementInfo, elementOrder, stack, emitIdx, xsdString,
                   consoleError, thrown, result>>

\* The document of a rejected input has the parsererror element, and a
\* documentElement or none.
ParseFail ==
    /\ pc = "parsing"
    /\ Len(xmlDoc.nodes) <= 1
    /\ \E d \in DiagTexts :
          xmlDoc' = [xmlDoc EXCEPT !.isError = TRUE, !.textContent = d]
    /\ pc' = "parsed"
    /\ UNCHANGED <<ui, calls, visited, elementInfo, elementOrder, stack, emitIdx, xsdString,
                   consoleError, thrown, result>>

ParseEnd ==
    /\ pc = "parsing"
    /\ pc' = "parsed"
    /\ UNCHANGED <<ui, calls, visited, xmlDoc, elementInfo, elementOrder, stack, emitIdx, xsdString,
                   consoleError, thrown, result>>

-----------------------------------------------------------------------------
(* generateXsd: the two guards *)

\* parserError.textContent.split("\n")[1] || 'Parsing failed.'
ParserErrorDetail(textContent) ==
    LET lines == Split(textContent)
    IN IF Len(lines) >= 2 /\ lines[2] # <<>> THEN lines[2] ELSE <<"Parsing failed.">>

ParseErrorMessage(textContent) == <<"Invalid XML: ">> \o ParserErrorDetail(textContent)

NoRootMessage == <<"Invalid XML: No root element found.">>

\* if (parserError) { console.error(...); throw ... }
ThrowParseError ==
    /\ pc = "parsed"
    /\ xmlDoc.isError
    /\ consoleError' = Append(consoleError, <<"XML Parsing Error:", xmlDoc.textContent>>)
    /\ thrown' = ParseErrorMessage(xmlDoc.textContent)
    /\ pc' = "failed"
    /\ UNCHANGED <<ui, calls, visited, xmlDoc, elementInfo, elementOrder, stack, emitIdx, xsdString, result>>

\* Variant: the root check does not wait for the parse check
ThrowNoRootFirst ==
    /\ pc = "parsed"
    /\ xmlDoc.nodes = <<>>
    /\ thrown' = NoRootMessage
    /\ pc' = "failed"
    /\ UNCHANGED <<ui, calls, visited, xmlDoc, elementInfo, elementOrder, stack, emitIdx,
                   xsdString, consoleError, result>>

\* Variant: the root check reports through console.error like the parse check
ThrowNoRootLogged ==
    /\ pc = "parsed"
    /\ ~xmlDoc.isError
    /\ xmlDoc.nodes = <<>>
    /\ consoleError' = Append(consoleError, <<"XML Parsing Error:", xmlDoc.textContent>>)
    /\ thrown' = NoRootMessage
    /\ pc' = "failed"
    /\ UNCHANGED <<ui, calls, visited, xmlDoc, elementInfo, elementOrder, stack, emitIdx, xsdString, result>>

\* if (!rootElement) throw ...
ThrowNoRoot ==
    /\ pc = "parsed"
    /\ ~xmlDoc.isError
    /\ xmlDoc.nodes = <<>>
    /\ thrown' = NoRootMessage
    /\ pc' = "failed"
    /\ UNCHANGED <<ui, calls, visited, xmlDoc, elementInfo, elementOrder, stack, emitIdx, xsdString,
                   consoleError, result>>

\* Variant: the child loop starts at the second child
FrameSkipFirst(node, parentName) ==
    [node |-> node, parentName |-> parentName, entered |-> FALSE, idx |-> 2,
     childrenProcessedInThisNode |-> {}, hasChildElements |-> FALSE]

Frame(node, parentName) ==
    [node |-> node, parentName |-> parentName, entered |-> FALSE, idx |-> 1,
     childrenProcessedInThisNode |-> {}, hasChildElements |-> FALSE]

\* Variant: the two Maps live outside the function and are never cleared
StartTraversalKeepMaps ==
    /\ pc = "parsed"
    /\ ~xmlDoc.isError
    /\ xmlDoc.nodes # <<>>
    /\ stack' = <<Frame(1, "")>>
    /\ visited' = <<>>
    /\ pc' = "traverse"
    /\ UNCHANGED <<ui, calls, xmlDoc, elementInfo, elementOrder, emitIdx, xsdString,
                   consoleError, thrown, result>>

\* const elementInfo = new Map(); const elementOrder = new Map();
\* processNode(rootElement)
StartTraversal ==
    /\ pc = "parsed"
    /\ ~xmlDoc.isError
    /\ xmlDoc.nodes # <<>>
    /\ elementInfo' = <<>>
    /\ elementOrder' = <<>>
    /\ stack' = <<Frame(1, "")>>
    /\ visited' = <<>>
    /\ pc' = "traverse"
    /\ UNCHANGED <<ui, calls, xmlDoc, emitIdx, xsdString, consoleError, thrown, result>>

-----------------------------------------------------------------------------
(* processNode: one activation record per call, one step per child node *)

Top == stack[Len(stack)]

Pop(st) == SubSeq(st, 1, Len(st) - 1)

ReplaceTop(st, f) == [st EXCEPT ![Len(st)] = f]

\* Reading a property of undefined
TypeError == <<"TypeError">>

NewInfo == [attributes |-> <<>>, children |-> <<>>, hasTextContent |-> FALSE]

\* if (!elementInfo.has(elementName)) elementInfo.set(elementName, {...})
CreateInfo(info, elementName) ==
    IF ~MapHas(info, elementName) THEN MapSet(info, elementName, NewInfo) ELSE info

\* Variant: the order array is not created with the record
CreateOrderNever(info, order, elementName) == order

\* if (!elementInfo.has(elementName)) elementOrder.set(elementName, [])
CreateOrder(info, order, elementName) ==
    IF ~MapHas(info, elementName) THEN MapSet(order, elementName, <<>>) ELSE order

\* Variant: attributes are taken from the first instance that has any
AddAttributesOnce(rec, attributes) ==
    IF rec.attributes = <<>> THEN [rec EXCEPT !.attributes = attributes] ELSE rec

\* for (...) info.attributes.add(node.attributes[i].name)
AddAttributes(rec, attributes) ==
    [rec EXCEPT !.attributes = SetAddAll(@, attributes)]

\* info.children.add(childName)
AddChild(rec, childName) == [rec EXCEPT !.children = SetAdd(@, childName)]

\* info.hasTextContent = true
MarkText(rec) == [rec EXCEPT !.hasTextContent = TRUE]

\* Variant: the text test without the node type
IsNonBlankNode(n) == Trim(n.nodeValue) # <<>>

\* Variant: the text test without trim()
IsAnyText(n) == n.nodeType = TEXT_NODE /\ n.nodeValue # <<>>

\* childNode.nodeType === Node.TEXT_NODE && childNode.nodeValue.trim() !== ''
IsNonBlankText(n) == n.nodeType = TEXT_NODE /\ Trim(n.nodeValue) # <<>>

\* Variant: the child is pushed without looking at the array
PushesOrderAlways(order, processed, childName) == TRUE

\* The two nested ifs that decide order.push(childName)
PushesOrder(order, processed, childName) ==
    /\ Len(order) = 0 \/ ~Includes(order, childName)
    /\ \/ childName \notin processed /\ Len(order) = 0
       \/ ~Includes(order, childName)

\* ... and childrenProcessedInThisNode.add(childName), first branch only
TracksChild(order, processed, childName) ==
    /\ Len(order) = 0 \/ ~Includes(order, childName)
    /\ childName \notin processed /\ Len(order) = 0

CaptureOrder(order, processed, childName) ==
    IF PushesOrder(order, processed, childName) THEN Append(order, childName) ELSE order

Fail(msg) ==
    /\ thrown' = msg
    /\ pc' = "failed"
    /\ UNCHANGED <<ui, calls, visited, xmlDoc, elementInfo, elementOrder, stack, emitIdx, xsdString,
                   consoleError, result>>

\* A call returns to its caller; the outermost one returns to generateXsd.
ReturnFrom(st) ==
    /\ stack' = Pop(st)
    /\ pc' = IF Len(st) = 1 THEN "emit" ELSE "traverse"

\* function processNode(node, parentName): up to the attribute loop
ProcessNodeEnter ==
    /\ pc = "traverse"
    /\ ~Top.entered
    /\ LET node == xmlDoc.nodes[Top.node]
           elementName == node.tagName
           info1 == CreateInfo(elementInfo, elementName)
           order1 == CreateOrder(elementInfo, elementOrder, elementName)
       IN IF node.nodeType # ELEMENT_NODE
          THEN /\ elementInfo' =
                     IF IsNonBlankText(node) /\ Top.parentName # ""
                        /\ MapHas(elementInfo, Top.parentName)
                     THEN MapSet(elementInfo, Top.parentName,
                                 MarkText(MapGet(elementInfo, Top.parentName)))
                     ELSE elementInfo
               /\ ReturnFrom(stack)
               /\ UNCHANGED <<ui, calls, visited, xmlDoc, elementOrder, emitIdx, xsdString,
                              consoleError, thrown, result>>
          ELSE IF node.attributes # <<>> /\ ~MapHas(info1, elementName)
          THEN Fail(TypeError)
          ELSE /\ elementInfo' =
                     IF node.attributes # <<>>
                     THEN MapSet(info1, elementName,
                                 AddAttributes(MapGet(info1, elementName), node.attributes))
                     ELSE info1
               /\ elementOrder' = order1
               /\ stack' = ReplaceTop(stack, [Top EXCEPT !.entered = TRUE])
               /\ visited' = Append(visited, Top.node)
               /\ UNCHANGED <<ui, calls, pc, xmlDoc, emitIdx, xsdString, consoleError,
                              thrown, result>>

\* node.childNodes.forEach(childNode => ...): the body, for the next child
ProcessChildNode ==
    /\ pc = "traverse"
    /\ Top.entered
    /\ Top.idx <= Len(ChildNodes(xmlDoc.nodes, Top.node))
    /\ LET elementName == xmlDoc.nodes[Top.node].tagName
           child == ChildNodes(xmlDoc.nodes, Top.node)[Top.idx]
           childNode == xmlDoc.nodes[child]
           childName == childNode.tagName
           next == [Top EXCEPT !.idx = @ + 1]
       IN IF childNode.nodeType = ELEMENT_NODE
          THEN IF ~MapHas(elementInfo, elementName) \/ ~MapHas(elementOrder, elementName)
               THEN Fail(TypeError)
               ELSE LET order == MapGet(elementOrder, elementName)
                        processed == Top.childrenProcessedInThisNode
                    IN /\ elementInfo' = MapSet(elementInfo, elementName,
                                AddChild(MapGet(elementInfo, elementName), childName))
                       /\ elementOrder' = MapSet(elementOrder, elementName,
                                CaptureOrder(order, processed, childName))
                       /\ stack' = Append(
                            ReplaceTop(stack,
                                [next EXCEPT
                                    !.hasChildElements = TRUE,
                                    !.childrenProcessedInThisNode =
                                        IF TracksChild(order, processed, childName)
                                        THEN @ \cup {childName} ELSE @]),
                            Frame(child, elementName))
                       /\ UNCHANGED <<ui, calls, visited, pc, xmlDoc, emitIdx, xsdString, consoleError,
                                      thrown, result>>
          ELSE IF IsNonBlankText(childNode)
          THEN IF ~MapHas(elementInfo, elementName)
               THEN Fail(TypeError)
               ELSE /\ elementInfo' = MapSet(elementInfo, elementName,
                                MarkText(MapGet(elementInfo, elementName)))
                    /\ stack' = ReplaceTop(stack, next)
                    /\ UNCHANGED <<ui, calls, visited, pc, xmlDoc, elementOrder, emitIdx, xsdString,
                                   consoleError, thrown, result>>
          ELSE /\ stack' = ReplaceTop(stack, next)
               /\ UNCHANGED <<ui, calls, visited, pc, xmlDoc, elementInfo, elementOrder, emitIdx,
                              xsdString, consoleError, thrown, result>>

\* After the loop: the two empty if-branches read info.hasTextContent, then
\* the call returns.
ProcessNodeReturn ==
    /\ pc = "traverse"
    /\ Top.entered
    /\ Top.idx > Len(ChildNodes(xmlDoc.nodes, Top.node))
    /\ IF ~MapHas(elementInfo, xmlDoc.nodes[Top.node].tagName)
       THEN Fail(TypeError)
       ELSE /\ ReturnFrom(stack)
            /\ UNCHANGED <<ui, calls, visited, xmlDoc, elementInfo, elementOrder, emitIdx, xsdString,
                           consoleError, thrown, result>>

-----------------------------------------------------------------------------
(* Emission: the lines appended to xsdString *)

BlankLine == <<>>

Preamble ==
    << <<"<?xml version=\"1.0\" encoding=\"UTF-8\"?>">>,
       <<"<xs:schema xmlns:xs=\"http://www.w3.org/2001/XMLSchema\"">>,
       <<"           targetNamespace=\"http://example.com/generatedSchema\"">>,
       <<"           xmlns:tns=\"http://example.com/generatedSchema\"">>,
       <<"           elementFormDefault=\"qualified\">">>,
       BlankLine >>

GlobalsComment == <<"  <!-- Global Element Declarations -->">>

TypesComment == <<"  <!-- Complex Type Definitions -->">>

SchemaClose == <<"</xs:schema>">>

StringElement(elementName) ==
    <<"  <xs:element name=\"", elementName, "\" type=\"xs:string\"/>">>

TypedElement(elementName) ==
    <<"  <xs:element name=\"", elementName, "\" type=\"tns:", elementName, "Type\"/>">>

ComplexTypeOpen(elementName, isMixed) ==
    <<"  <xs:complexType name=\"", elementName, "Type\"">>
        \o (IF isMixed THEN <<" mixed=\"true\"">> ELSE <<>>) \o <<">">>

ComplexTypeClose == <<"  </xs:complexType>">>

SequenceOpen == <<"    <xs:sequence>">>

SequenceClose == <<"    </xs:sequence>">>

EmptySequence == <<"    <xs:sequence minOccurs=\"0\"/>">>

ChildRef(childName) ==
    <<"      <xs:element ref=\"tns:", childName,
      "\" minOccurs=\"0\" maxOccurs=\"unbounded\"/>">>

SimpleContentOpen == <<"    <xs:simpleContent>">>

SimpleContentClose == <<"    </xs:simpleContent>">>

ExtensionOpen == <<"      <xs:extension base=\"xs:string\">">>

ExtensionClose == <<"      </xs:extension>">>

ExtensionAttribute(attrName) ==
    <<"        <xs:attribute name=\"", attrName, "\" type=\"xs:string\" use=\"optional\"/>">>

Attribute(attrName) ==
    <<"    <xs:attribute name=\"", attrName, "\" type=\"xs:string\" use=\"optional\"/>">>

HasChildren(info) == Len(info.children) > 0

HasAttributes(info) == Len(info.attributes) > 0

\* if (!hasChildren && !hasAttributes && info.hasTextContent) ... else ...
GlobalElement(elementName, info) ==
    IF ~HasChildren(info) /\ ~HasAttributes(info) /\ info.hasTextContent
    THEN StringElement(elementName)
    ELSE TypedElement(elementName)

\* Variant: no type for an element without children and attributes
NeedsComplexTypeNoEmpty(info) == HasChildren(info) \/ HasAttributes(info)

\* Variant: the empty-element disjunct forgets the text flag
NeedsComplexTypeAnyText(info) ==
    \/ HasChildren(info)
    \/ HasAttributes(info)
    \/ ~HasChildren(info) /\ ~HasAttributes(info)

\* if (hasChildren || hasAttributes || (!info.hasTextContent && ...))
NeedsComplexType(info) ==
    \/ HasChildren(info)
    \/ HasAttributes(info)
    \/ ~info.hasTextContent /\ ~HasChildren(info) /\ ~HasAttributes(info)

\* const isMixed = info.hasTextContent && hasChildren
IsMixed(info) == info.hasTextContent /\ HasChildren(info)

\* Variant: the two lists are concatenated without the Set
AllChildrenConcat(info, order, elementName) ==
    (IF MapHas(order, elementName) THEN MapGet(order, elementName) ELSE info.children)
        \o info.children

\* new Set([...childrenOrder, ...info.children]); elementOrder.get(name) is
\* an array, hence truthy, whenever the entry exists
AllChildren(info, order, elementName) ==
    LET childrenOrder ==
            IF MapHas(order, elementName) THEN MapGet(order, elementName)
            ELSE info.children
    IN SetAddAll(SetAddAll(<<>>, childrenOrder), info.children)

ChildRefs(children) == [i \in 1..Len(children) |-> ChildRef(children[i])]

Attributes(info) == [i \in 1..Len(info.attributes) |-> Attribute(info.attributes[i])]

ExtensionAttributes(info) ==
    [i \in 1..Len(info.attributes) |-> ExtensionAttribute(info.attributes[i])]

\* Variant: the empty sequence is left out when attributes carry the content
ContentModelNoEmpty(info, order, elementName) ==
    IF HasChildren(info)
    THEN <<SequenceOpen>> \o ChildRefs(AllChildren(info, order, elementName))
             \o <<SequenceClose>>
    ELSE IF ~HasChildren(info) /\ ~info.hasTextContent /\ ~HasAttributes(info)
    THEN <<EmptySequence>>
    ELSE <<>>

\* The content model of a type: the if / else if / else if chain
ContentModel(info, order, elementName) ==
    IF HasChildren(info)
    THEN <<SequenceOpen>> \o ChildRefs(AllChildren(info, order, elementName))
             \o <<SequenceClose>>
    ELSE IF ~HasChildren(info) /\ ~info.hasTextContent
    THEN <<EmptySequence>>
    ELSE <<>>

\* Variant: the simpleContent branch is never taken
UsesSimpleContentNever(info) == FALSE

UsesSimpleContent(info) ==
    /\ ~HasChildren(info)
    /\ ~(~HasChildren(info) /\ ~info.hasTextContent)
    /\ info.hasTextContent /\ ~HasChildren(info) /\ HasAttributes(info)

SimpleContent(info) ==
    <<SimpleContentOpen, ExtensionOpen>> \o ExtensionAttributes(info)
        \o <<ExtensionClose, SimpleContentClose, ComplexTypeClose, BlankLine>>

\* xsdString.replace(from, to): the first line that holds `from` gets `to`
ReplaceFirst(xsd, from, to) ==
    IF \E i \in 1..Len(xsd) : xsd[i] = from
    THEN [xsd EXCEPT ![CHOOSE i \in 1..Len(xsd) :
                          xsd[i] = from /\ \A j \in 1..(i - 1) : xsd[j] # from] = to]
    ELSE xsd

\* One iteration of the second loop over elementInfo.entries()
WithComplexType(xsd, elementName, info, order) ==
    IF ~NeedsComplexType(info) THEN xsd
    ELSE LET opened == Append(xsd, ComplexTypeOpen(elementName, IsMixed(info)))
         IN IF UsesSimpleContent(info)
            THEN ReplaceFirst(opened, ComplexTypeOpen(elementName, IsMixed(info)),
                              ComplexTypeOpen(elementName, FALSE))
                     \o SimpleContent(info)
            ELSE opened \o ContentModel(info, order, elementName)
                     \o Attributes(info) \o <<ComplexTypeClose, BlankLine>>

\* let xsdString = ...; the preamble and the first comment
EmitPreamble ==
    /\ pc = "emit"
    /\ xsdString' = Preamble \o <<GlobalsComment>>
    /\ emitIdx' = 1
    /\ pc' = "globals"
    /\ UNCHANGED <<ui, calls, visited, xmlDoc, elementInfo, elementOrder, stack, consoleError, thrown, result>>

\* for (const elementName of elementInfo.keys()) ...
EmitGlobalElement ==
    /\ pc = "globals"
    /\ emitIdx <= Len(elementInfo)
    /\ xsdString' = Append(xsdString,
            GlobalElement(elementInfo[emitIdx].key, elementInfo[emitIdx].value))
    /\ emitIdx' = emitIdx + 1
    /\ UNCHANGED <<ui, calls, visited, pc, xmlDoc, elementInfo, elementOrder, stack, consoleError,
                   thrown, result>>

\* xsdString += `\n`; and the second comment
EmitTypesComment ==
    /\ pc = "globals"
    /\ emitIdx > Len(elementInfo)
    /\ xsdString' = xsdString \o <<BlankLine, TypesComment>>
    /\ emitIdx' = 1
    /\ pc' = "types"
    /\ UNCHANGED <<ui, calls, visited, xmlDoc, elementInfo, elementOrder, stack, consoleError, thrown, result>>

\* for (const [elementName, info] of elementInfo.entries()) ...
EmitComplexType ==
    /\ pc = "types"
    /\ emitIdx <= Len(elementInfo)
    /\ xsdString' = WithComplexType(xsdString, elementInfo[emitIdx].key,
                                    elementInfo[emitIdx].value, elementOrder)
    /\ emitIdx' = emitIdx + 1
    /\ UNCHANGED <<ui, calls, visited, pc, xmlDoc, elementInfo, elementOrder, stack, consoleError,
                   thrown, result>>

\* xsdString += `</xs:schema>\n`; return xsdString
Return ==
    /\ pc = "types"
    /\ emitIdx > Len(elementInfo)
    /\ xsdString' = Append(xsdString, SchemaClose)
    /\ result' = xsdString'
    /\ pc' = "done"
    /\ UNCHANGED <<ui, calls, visited, xmlDoc, elementInfo, elementOrder, stack, emitIdx, consoleError, thrown>>

-----------------------------------------------------------------------------

Next ==
    \/ ParseNode
    \/ ParseFail
    \/ ParseEnd
    \/ ThrowParseError
    \/ ThrowNoRoot
    \/ StartTraversal
    \/ ProcessNodeEnter
    \/ ProcessChildNode
    \/ ProcessNodeReturn
    \/ EmitPreamble
    \/ EmitGlobalElement
    \/ EmitTypesComment
    \/ EmitComplexType
    \/ Return

Spec == Init /\ [][Next]_vars

-----------------------------------------------------------------------------
(* What the document says, read off the tree without the analyzer *)

Nodes == xmlDoc.nodes

ElementIds == {i \in 1..Len(Nodes) : Nodes[i].nodeType = ELEMENT_NODE}

InstancesOf(t) == {i \in ElementIds : Nodes[i].tagName = t}

DocTags == {Nodes[i].tagName : i \in ElementIds}

DocAttrNames(t) == UNION {Range(Nodes[i].attributes) : i \in InstancesOf(t)}

DocChildTags(t) ==
    {Nodes[j].tagName : j \in {k \in ElementIds : Nodes[k].parent \in InstancesOf(t)}}

Whitespace == {" ", "\n", "\t"}

DocHasText(t) ==
    \E j \in 1..Len(Nodes) :
        /\ Nodes[j].nodeType = TEXT_NODE
        /\ Nodes[j].parent \in InstancesOf(t)
        /\ \E k \in 1..Len(Nodes[j].nodeValue) : Nodes[j].nodeValue[k] \notin Whitespace

\* The input was accepted by the parser and has a root element.
WellFormed == pc # "parsing" /\ ~xmlDoc.isError /\ Nodes # <<>>

Rootless == pc # "parsing" /\ ~xmlDoc.isError /\ Nodes = <<>>

Rejected == pc # "parsing" /\ xmlDoc.isError

Done == pc = "done"

(* What the schema text says, read off its lines *)

XStringDecl(t) == <<"  <xs:element name=\"", t, "\" type=\"xs:string\"/>">>

XTypedDecl(t) == <<"  <xs:element name=\"", t, "\" type=\"tns:", t, "Type\"/>">>

XTypeOpen(t) == <<"  <xs:complexType name=\"", t, "Type\"", ">">>

XMixedTypeOpen(t) == <<"  <xs:complexType name=\"", t, "Type\"", " mixed=\"true\"", ">">>

XTypeClose == <<"  </xs:complexType>">>

XEmptySequence == <<"    <xs:sequence minOccurs=\"0\"/>">>

XRef(c) ==
    <<"      <xs:element ref=\"tns:", c, "\" minOccurs=\"0\" maxOccurs=\"unbounded\"/>">>

XAttr(a) ==
    <<"    <xs:attribute name=\"", a, "\" type=\"xs:string\" use=\"optional\"/>">>

XExtensionAttr(a) ==
    <<"        <xs:attribute name=\"", a, "\" type=\"xs:string\" use=\"optional\"/>">>

IsGlobalDeclOf(l, t) == Len(l) >= 2 /\ l[1] = "  <xs:element name=\"" /\ l[2] = t

IsGlobalDecl(l) == Len(l) >= 2 /\ l[1] = "  <xs:element name=\""

IsTypeOpenOf(l, t) ==
    Len(l) >= 3 /\ l[1] = "  <xs:complexType name=\"" /\ l[2] = t /\ l[3] = "Type\""

IsTypeOpen(l) == Len(l) >= 3 /\ l[1] = "  <xs:complexType name=\""

IsRef(l) == Len(l) >= 1 /\ l[1] = "      <xs:element ref=\"tns:"

IsAttr(l) ==
    Len(l) >= 1 /\ l[1] \in {"    <xs:attribute name=\"", "        <xs:attribute name=\""}

IsSequence(l) ==
    l \in {<<"    <xs:sequence>">>, <<"    </xs:sequence>">>, XEmptySequence}

TypeOpens(out, t) == {i \in 1..Len(out) : IsTypeOpenOf(out[i], t)}

\* The lines of the type definition that opens at line i, both ends included
TypeBlock(out, i) ==
    LET closes == {j \in i..Len(out) : out[j] = XTypeClose}
    IN IF closes = {} THEN SubSeq(out, i, Len(out))
       ELSE SubSeq(out, i, CHOOSE j \in closes : \A k \in closes : j <= k)

\* The definition of <t>Type, when the schema has exactly one
TypeDef(out, t) == TypeBlock(out, CHOOSE i \in TypeOpens(out, t) : TRUE)

Count(s, x) == Cardinality({i \in 1..Len(s) : s[i] = x})

\* The tags of the global element declarations, in order of appearance
RECURSIVE DeclNames(_)
DeclNames(out) ==
    IF out = <<>> THEN <<>>
    ELSE (IF IsGlobalDecl(Head(out)) THEN <<Head(out)[2]>> ELSE <<>>)
             \o DeclNames(Tail(out))

\* The tags of the type definitions, in order of appearance
RECURSIVE TypeNames(_)
TypeNames(out) ==
    IF out = <<>> THEN <<>>
    ELSE (IF IsTypeOpen(Head(out)) THEN <<Head(out)[2]>> ELSE <<>>)
             \o TypeNames(Tail(out))

\* sub occurs in s as a contiguous run
Occurs(sub, s) ==
    \E i \in 1..(Len(s) + 1 - Len(sub)) : SubSeq(s, i, i + Len(sub) - 1) = sub

-----------------------------------------------------------------------------
(* Error handling *)

\* C1: when the parser reports no error and the document has no root
\* element, generateXsd does nothing but throw 'Invalid XML: No root element
\* found.': no schema text is built or returned and console.error is never
\* called.
C1_NoRootThrowsQuietly ==
    Rootless =>
        /\ pc \in {"parsed", "failed"}
        /\ pc = "parsed" => ENABLED ThrowNoRoot
        /\ pc = "failed" => thrown = <<"Invalid XML: No root element found.">>
        /\ consoleError = <<>>
        /\ xsdString = <<>>
        /\ result = <<>>

C1_Witness == Rootless /\ pc = "failed"

\* C2: whenever the parser reports a failure, the message of the thrown
\* error includes the parser's detail text: at least some run of the text
\* of the diagnostic occurs in it.
C2_MessageIncludesDetail ==
    (Rejected /\ pc = "failed") =>
        \E i \in 1..Len(xmlDoc.textContent) : \E j \in i..Len(xmlDoc.textContent) :
            /\ \A k \in i..j : xmlDoc.textContent[k] # "\n"
            /\ Occurs(SubSeq(xmlDoc.textContent, i, j), thrown)

\* C3: a document without parse error and with a root element never makes
\* generateXsd throw: every step up to the return is enabled, and the call
\* returns the schema text, which ends with the closing tag.  The only
\* failures are those of a rejected or rootless document.
C3_WellFormedNeverFails ==
    /\ WellFormed =>
          /\ pc # "failed"
          /\ thrown = <<>>
          /\ pc # "done" => ENABLED Next
          /\ pc = "done" =>
                /\ result = xsdString
                /\ Len(result) > 0
                /\ result[Len(result)] = <<"</xs:schema>">>
    /\ pc = "failed" => Rejected \/ Rootless

C3_Witness == WellFormed /\ Done /\ Len(Nodes) = MaxSize

-----------------------------------------------------------------------------
(* The shape emitted for a tag *)

\* C4: a tag with text directly inside some instance, no child element and
\* no attribute on any instance is declared once, as a global element of
\* type xs:string, and the schema has no complexType named <tag>Type.
C4_TextOnlyIsBareString ==
    Done =>
        \A t \in DocTags :
            (DocHasText(t) /\ DocChildTags(t) = {} /\ DocAttrNames(t) = {}) =>
                /\ Count(result, XStringDecl(t)) = 1
                /\ \A i \in 1..Len(result) :
                      IsGlobalDeclOf(result[i], t) => result[i] = XStringDecl(t)
                /\ TypeOpens(result, t) = {}

C4_Witness ==
    /\ Done
    /\ \E t \in DocTags :
          /\ DocHasText(t) /\ DocChildTags(t) = {} /\ DocAttrNames(t) = {}
          /\ t # Nodes[1].tagName

\* C5: a tag with no text and no child element on any instance, with or
\* without attributes, is declared once with type tns:<tag>Type, and its one
\* complexType <tag>Type is, in this order: the unmixed opening line, the
\* empty optional sequence, one attribute declaration per attribute name seen
\* on the tag, the closing line.
C5_EmptyElementShape ==
    Done =>
        \A t \in DocTags :
            (~DocHasText(t) /\ DocChildTags(t) = {}) =>
                /\ Count(result, XTypedDecl(t)) = 1
                /\ \A i \in 1..Len(result) :
                      IsGlobalDeclOf(result[i], t) => result[i] = XTypedDecl(t)
                /\ Cardinality(TypeOpens(result, t)) = 1
                /\ LET def == TypeDef(result, t)
                       n == Cardinality(DocAttrNames(t))
                   IN /\ Len(def) = n + 3
                      /\ def[1] = XTypeOpen(t)
                      /\ def[2] = XEmptySequence
                      /\ \A a \in DocAttrNames(t) :
                            \E i \in 3..(n + 2) : def[i] = XAttr(a)
                      /\ def[n + 3] = XTypeClose

C5_Witness ==
    /\ Done
    /\ \E t \in DocTags :
          /\ ~DocHasText(t) /\ DocChildTags(t) = {}
          /\ DocAttrNames(t) # {}
    /\ \E t \in DocTags :
          ~DocHasText(t) /\ DocChildTags(t) = {} /\ DocAttrNames(t) = {}

\* C6: the type definition of a tag with at least one child tag holds, for
\* each distinct tag that is a child of some instance, exactly one reference
\* line, with minOccurs="0" maxOccurs="unbounded", and no other reference,
\* however often the child repeats.
C6_OneReferencePerChildTag ==
    Done =>
        \A t \in DocTags :
            DocChildTags(t) # {} =>
                /\ Cardinality(TypeOpens(result, t)) = 1
                /\ LET def == TypeDef(result, t)
                   IN /\ \A c \in DocChildTags(t) : Count(def, XRef(c)) = 1
                      /\ \A i \in 1..Len(def) :
                            IsRef(def[i]) =>
                                \E c \in DocChildTags(t) : def[i] = XRef(c)

C6_Witness ==
    /\ Done
    /\ \E t \in DocTags :
          /\ Cardinality(DocChildTags(t)) = 2
          /\ \E i, j \in ElementIds :
                /\ i # j
                /\ Nodes[i].tagName = Nodes[j].tagName
                /\ Nodes[i].parent \in InstancesOf(t)
                /\ Nodes[j].parent \in InstancesOf(t)

\* C7: a tag with text directly inside some instance, no child element and
\* at least one attribute gets a type definition that is, in this order:
\* the unmixed opening line, the simpleContent and xs:string extension
\* openings, one attribute declaration per attribute name seen on the tag,
\* the three closing lines; it has no sequence.
C7_SimpleContentShape ==
    Done =>
        \A t \in DocTags :
            (DocHasText(t) /\ DocChildTags(t) = {} /\ DocAttrNames(t) # {}) =>
                /\ Cardinality(TypeOpens(result, t)) = 1
                /\ LET def == TypeDef(result, t)
                       n == Cardinality(DocAttrNames(t))
                   IN /\ Len(def) = n + 6
                      /\ def[1] = XTypeOpen(t)
                      /\ def[2] = <<"    <xs:simpleContent>">>
                      /\ def[3] = <<"      <xs:extension base=\"xs:string\">">>
                      /\ \A a \in DocAttrNames(t) :
                            \E i \in 4..(n + 3) : def[i] = XExtensionAttr(a)
                      /\ def[n + 4] = <<"      </xs:extension>">>
                      /\ def[n + 5] = <<"    </xs:simpleContent>">>
                      /\ def[n + 6] = XTypeClose
                      /\ \A i \in 1..Len(def) : ~IsSequence(def[i])

C7_Witness ==
    /\ Done
    /\ \E t \in DocTags :
          /\ DocHasText(t) /\ DocChildTags(t) = {}
          /\ Cardinality(DocAttrNames(t)) = 2

\* C8: the opening line of a tag's type definition carries mixed="true"
\* exactly when some instance of the tag directly contains non-blank text and
\* some instance has a child element; a tag with both always has it.
C8_MixedIffTextAndChildren ==
    Done =>
        \A t \in DocTags :
            LET both == DocHasText(t) /\ DocChildTags(t) # {}
            IN /\ Count(result, XMixedTypeOpen(t)) = (IF both THEN 1 ELSE 0)
               /\ both => Count(result, XTypeOpen(t)) = 0

C8_Witness ==
    /\ Done
    /\ \E t \in DocTags :
          /\ DocHasText(t) /\ DocChildTags(t) # {}
          /\ \E i \in InstancesOf(t) :
                \A j \in 1..Len(Nodes) :
                    Nodes[j].parent = i => Nodes[j].nodeType = ELEMENT_NODE

\* C9: every type definition in the schema, whatever its content shape,
\* holds exactly one attribute declaration, with type xs:string and
\* use="optional", for each attribute name seen on any instance of its tag,
\* and no other attribute declaration.
C9_AttributesOfEveryInstance ==
    Done =>
        \A t \in DocTags :
            \A o \in TypeOpens(result, t) :
                LET def == TypeBlock(result, o)
                IN /\ \A a \in DocAttrNames(t) :
                         Count(def, XAttr(a)) + Count(def, XExtensionAttr(a)) = 1
                   /\ \A i \in 1..Len(def) :
                         IsAttr(def[i]) =>
                             \E a \in DocAttrNames(t) :
                                 def[i] \in {XAttr(a), XExtensionAttr(a)}

C9_Witness ==
    /\ Done
    /\ \E t \in DocTags :
          /\ TypeOpens(result, t) # {}
          /\ \E i, j \in InstancesOf(t) :
                /\ Range(Nodes[i].attributes) \ Range(Nodes[j].attributes) # {}
                /\ Range(Nodes[j].attributes) \ Range(Nodes[i].attributes) # {}

-----------------------------------------------------------------------------
(* The order of the schema text *)

\* The members of a set of node numbers, ascending: document order
RECURSIVE Ascending(_)
Ascending(S) ==
    IF S = {} THEN <<>>
    ELSE LET m == CHOOSE x \in S : \A y \in S : x <= y
         IN <<m>> \o Ascending(S \ {m})

\* The element nodes in the order a depth-first traversal reaches them
RECURSIVE Visit(_), VisitAll(_)
Visit(i) == <<i>> \o VisitAll(Ascending({j \in ElementIds : Nodes[j].parent = i}))
VisitAll(ks) == IF ks = <<>> THEN <<>> ELSE Visit(Head(ks)) \o VisitAll(Tail(ks))

RECURSIVE FirstTags(_, _)
FirstTags(ids, seen) ==
    IF ids = <<>> THEN seen
    ELSE FirstTags(Tail(ids),
                   IF \E k \in 1..Len(seen) : seen[k] = Nodes[Head(ids)].tagName
                   THEN seen ELSE Append(seen, Nodes[Head(ids)].tagName))

\* The tags of the document in order of first encounter
FirstEncounter == IF Nodes = <<>> THEN <<>> ELSE FirstTags(Visit(1), <<>>)

DocNeedsType(t) == ~(DocHasText(t) /\ DocChildTags(t) = {} /\ DocAttrNames(t) = {})

\* C10: the schema text is the fixed preamble, then one global element
\* declaration per tag in order of first encounter in the depth-first
\* traversal, then the type definitions of the tags that need one, in the
\* same order, then the closing tag; at no moment of the emission does a type
\* definition precede a global element declaration.
C10_DeclarationsThenTypesInFirstEncounterOrder ==
    /\ \A i, j \in 1..Len(xsdString) :
          (IsTypeOpen(xsdString[i]) /\ IsGlobalDecl(xsdString[j])) => j < i
    /\ Done =>
          /\ SubSeq(result, 1, Len(Preamble)) = Preamble
          /\ \A i \in 1..Len(Preamble) : ~IsGlobalDecl(result[i]) /\ ~IsTypeOpen(result[i])
          /\ DeclNames(result) = FirstEncounter
          /\ TypeNames(result) = SelectSeq(FirstEncounter, DocNeedsType)
          /\ Count(result, <<"</xs:schema>">>) = 1
          /\ result[Len(result)] = <<"</xs:schema>">>

C10_Witness ==
    /\ Done
    /\ Len(Nodes) = 4
    /\ Nodes[3].parent = 2 /\ Nodes[4].parent = 1
    /\ Nodes[3].nodeType = ELEMENT_NODE /\ Nodes[4].nodeType = ELEMENT_NODE
    /\ Cardinality({Nodes[1].tagName, Nodes[3].tagName, Nodes[4].tagName}) = 3
    /\ Nodes[2].tagName = Nodes[1].tagName

-----------------------------------------------------------------------------
(* The records of the analyzer *)

KeysOf(m) == {m[i].key : i \in 1..Len(m)}

Traversed == pc \in {"emit", "globals", "types", "done"}

\* C11: the tags that have a record are the tag names of the element nodes
\* visited so far, each with one record; the schema has one global element
\* declaration for each of them and at most one type definition, however
\* many instances a tag has and wherever they stand.
C11_OneRecordPerVisitedTag ==
    /\ (pc = "traverse" \/ Traversed) =>
          /\ KeysOf(elementInfo) = {Nodes[i].tagName : i \in Range(visited)}
          /\ \A i, j \in 1..Len(elementInfo) :
                elementInfo[i].key = elementInfo[j].key => i = j
    /\ Done =>
          /\ {result[i][2] : i \in {k \in 1..Len(result) : IsGlobalDecl(result[k])}}
                = KeysOf(elementInfo)
          /\ \A t \in KeysOf(elementInfo) :
                /\ Cardinality({i \in 1..Len(result) : IsGlobalDeclOf(result[i], t)}) = 1
                /\ Cardinality(TypeOpens(result, t)) <= 1

C11_Witness ==
    /\ Done
    /\ \E i, j \in ElementIds :
          /\ Nodes[i].tagName = Nodes[j].tagName
          /\ Nodes[i].parent = 0
          /\ Nodes[j].parent # 1 /\ Nodes[j].parent # 0

\* The tags of the element children of node i, in order
RECURSIVE TagsOf(_)
TagsOf(ids) ==
    IF ids = <<>> THEN <<>> ELSE <<Nodes[Head(ids)].tagName>> \o TagsOf(Tail(ids))

ChildTagsIn(i) == TagsOf(Ascending({j \in ElementIds : Nodes[j].parent = i}))

RECURSIVE Distinct(_, _)
Distinct(s, seen) ==
    IF s = <<>> THEN seen
    ELSE Distinct(Tail(s), IF \E k \in 1..Len(seen) : seen[k] = Head(s)
                           THEN seen ELSE Append(seen, Head(s)))

\* The child tags of the instances of t, instance after instance in the
\* order of the traversal
RECURSIVE ChildTagsOfInstances(_, _)
ChildTagsOfInstances(ids, t) ==
    IF ids = <<>> THEN <<>>
    ELSE (IF Nodes[Head(ids)].tagName = t THEN ChildTagsIn(Head(ids)) ELSE <<>>)
             \o ChildTagsOfInstances(Tail(ids), t)

\* First the distinct child tags of the first instance, then those found
\* only under later instances
FirstInstanceOrder(t) == Distinct(ChildTagsOfInstances(Visit(1), t), <<>>)

RECURSIVE RefNames(_)
RefNames(def) ==
    IF def = <<>> THEN <<>>
    ELSE (IF IsRef(Head(def)) THEN <<Head(def)[2]>> ELSE <<>>) \o RefNames(Tail(def))

\* t occurs below an instance of itself
SelfNested(t) ==
    \E i, j \in InstancesOf(t) : i # j /\ i \in AncestorsOrSelf(Nodes, j)

\* C14: the child references of a tag's content model list first the
\* distinct child tags of the first-visited instance, in their order among
\* its children, then the child tags found only under later instances, in
\* order of discovery; also for a tag nested inside itself.
C14_FirstInstanceOrderFirst ==
    Done =>
        \A t \in DocTags :
            DocChildTags(t) # {} =>
                RefNames(TypeDef(result, t)) = FirstInstanceOrder(t)

\* C15: in every state of the traversal and after it, the names in a tag's
\* order array are all in the children set of its record, and none occurs
\* twice.
C15_OrderWithinChildren ==
    \A k \in 1..Len(elementOrder) :
        LET order == elementOrder[k].value
        IN /\ MapHas(elementInfo, elementOrder[k].key)
           /\ \A i \in 1..Len(order) :
                 Includes(MapGet(elementInfo, elementOrder[k].key).children, order[i])
           /\ \A i, j \in 1..Len(order) : order[i] = order[j] => i = j

C15_Witness ==
    /\ pc = "traverse"
    /\ \E k \in 1..Len(elementOrder) :
          /\ Len(elementOrder[k].value) = 2
          /\ \E i \in InstancesOf(elementOrder[k].key) :
                /\ Len(ChildTagsIn(i)) = 3
                /\ \A j \in 1..Len(Nodes) : Nodes[j].parent = i => j \in Range(visited)

\* C16: when the traversal has ended, a tag's hasTextContent is true iff
\* some instance of it has a text node child that is not blank; blank text,
\* text inside child elements and comments leave the flag alone, and only
\* element tags have a record.  During the traversal the flag is never true
\* without such a text node.
C16_HasTextIffDirectNonBlankText ==
    /\ \A k \in 1..Len(elementInfo) :
          /\ elementInfo[k].value.hasTextContent => DocHasText(elementInfo[k].key)
          /\ elementInfo[k].key \in DocTags
    /\ Traversed =>
          \A k \in 1..Len(elementInfo) :
              DocHasText(elementInfo[k].key) => elementInfo[k].value.hasTextContent

C16_Witness ==
    /\ Traversed
    /\ \E t \in DocTags :
          /\ ~DocHasText(t)
          /\ \E j \in 1..Len(Nodes) :
                /\ Nodes[j].nodeType = TEXT_NODE
                /\ Nodes[j].parent \in InstancesOf(t)
          /\ \E u \in DocChildTags(t) : DocHasText(u)

-----------------------------------------------------------------------------
(* Termination of the traversal *)

KidsCount(i) == Cardinality({j \in 1..Len(Nodes) : Nodes[j].parent = i})

OnStack == {stack[k].node : k \in 1..Len(stack)}

\* The steps a call of processNode still has to take: its entry, one per
\* child not yet looked at, its return
FrameWork(f) == (IF f.entered THEN 0 ELSE 1) + (KidsCount(f.node) + 1 - f.idx) + 1

RECURSIVE StackWork(_)
StackWork(st) == IF st = <<>> THEN 0 ELSE FrameWork(Head(st)) + StackWork(Tail(st))

\* The steps the calls not yet made will take: for an element not yet
\* reached, the step of its parent's loop is counted with the parent
RECURSIVE CallsWork(_)
CallsWork(S) ==
    IF S = {} THEN 0
    ELSE LET e == CHOOSE x \in S : TRUE
         IN 2 + KidsCount(e) + CallsWork(S \ {e})

Remaining == StackWork(stack) + CallsWork(ElementIds \ (Range(visited) \cup OnStack))

\* The element nodes still to be visited
ToVisit == ElementIds \ Range(visited)

\* C17: the traversal terminates and visits every element node reachable
\* from the root exactly once: no node is entered twice, every step of the
\* traversal lowers a natural-number measure by one and never raises the
\* number of elements still to be visited, a step is always possible while
\* the traversal runs, and when it has ended every element node has been
\* visited.
C17_TraversalTerminates ==
    /\ [](/\ \A i, j \in 1..Len(visited) : visited[i] = visited[j] => i = j
          /\ Range(visited) \subseteq ElementIds
          /\ pc = "traverse" =>
                /\ Remaining > 0
                /\ ENABLED (ProcessNodeEnter \/ ProcessChildNode \/ ProcessNodeReturn)
          /\ Traversed => Range(visited) = ElementIds /\ Remaining = 0)
    /\ [][pc = "traverse" =>
             /\ Remaining' + 1 = Remaining
             /\ Cardinality(ToVisit') <= Cardinality(ToVisit)
             /\ visited' # visited => Cardinality(ToVisit') + 1 = Cardinality(ToVisit)]_vars

C17_Witness ==
    /\ Traversed
    /\ Len(visited) = 4
    /\ \E i \in ElementIds : Nodes[i].parent = 2
    /\ \E i \in ElementIds : Nodes[i].parent = 1 /\ i > 2

\* The names the schema uses
SchemaNames == DeclNames(result) \o TypeNames(result)

\* C18: the schema is referentially closed: a global element is typed
\* tns:<tag>Type iff exactly one complexType <tag>Type is defined, and
\* xs:string iff none is; every complexType defined belongs to a declared
\* element; every child reference names a tag that has a global element
\* declaration.
C18_ReferentiallyClosed ==
    Done =>
        /\ \A i \in 1..Len(result) :
              /\ IsGlobalDecl(result[i]) =>
                    /\ result[i] = XTypedDecl(result[i][2])
                          <=> Cardinality(TypeOpens(result, result[i][2])) = 1
                    /\ result[i] = XStringDecl(result[i][2])
                          <=> TypeOpens(result, result[i][2]) = {}
              /\ IsTypeOpen(result[i]) =>
                    \E j \in 1..Len(result) : IsGlobalDeclOf(result[j], result[i][2])
              /\ IsRef(result[i]) =>
                    \E j \in 1..Len(result) : IsGlobalDeclOf(result[j], result[i][2])

C18_Witness ==
    /\ Done
    /\ \E i, j, k \in 1..Len(result) :
          /\ IsGlobalDecl(result[i]) /\ result[i] = XStringDecl(result[i][2])
          /\ IsGlobalDecl(result[j]) /\ result[j] = XTypedDecl(result[j][2])
          /\ IsRef(result[k]) /\ result[k][2] = result[i][2]
    /\ \E t \in DocTags : DocChildTags(t) = {} /\ DocAttrNames(t) = {} /\ ~DocHasText(t)

\* C20: the parse-error check comes before the root check: when the parser
\* reports an error the call fails with the "Invalid XML: <detail>" message
\* and one console.error, never with the no-root message, whether or not the
\* document has a root element; in both failure cases no node is traversed
\* and no schema text is produced.
C20_ParseErrorBeforeRootCheck ==
    /\ (Rejected /\ pc # "parsing") =>
          /\ pc \in {"parsed", "failed"}
          /\ pc = "parsed" => ENABLED ThrowParseError /\ ~ENABLED ThrowNoRoot
                                 /\ ~ENABLED StartTraversal
          /\ pc = "failed" =>
                /\ thrown = ParseErrorMessage(xmlDoc.textContent)
                /\ thrown # NoRootMessage
                /\ Len(consoleError) = 1
    /\ pc = "failed" =>
          /\ visited = <<>> /\ stack = <<>>
          /\ elementInfo = <<>> /\ elementOrder = <<>>
          /\ xsdString = <<>> /\ result = <<>>

C20_Witness ==
    /\ pc = "failed"
    /\ Rejected
    /\ Nodes # <<>>

C20_WitnessNoRoot ==
    /\ pc = "failed"
    /\ Rejected
    /\ Nodes = <<>>

-----------------------------------------------------------------------------
(* A sequence of calls of generateXsd: a first call, a call in between, and
   a call with the first call's input again.  The variables of the function
   body keep the values the previous call left in them until the code of the
   new call assigns them. *)

CallNextNodes(nodes) ==
    IF Len(nodes) >= MaxCallSize THEN {}
    ELSE {m \in (IF nodes = <<>> THEN ElementNodes(0)
                 ELSE UNION {ElementNodes(p) : p \in OpenElements(nodes)}) :
             m.attributes = <<>>}

RECURSIVE CallTrees(_, _)
CallTrees(S, k) ==
    IF k = 0 THEN S
    ELSE CallTrees(S \cup UNION {{Append(nodes, m) : m \in CallNextNodes(nodes)} :
                                    nodes \in S},
                   k - 1)

\* The parse results of the inputs of a sequence of calls: well-formed
\* documents, the document without a root, and rejected inputs
CallDocs ==
    {[isError |-> FALSE, textContent |-> <<>>, nodes |-> n] :
        n \in CallTrees({<<>>}, MaxCallSize)}
    \cup {[isError |-> TRUE, textContent |-> d, nodes |-> <<>>] :
             d \in {x \in DiagTexts : Len(x) <= MaxCallSize}}

\* parser.parseFromString(xmlString, "application/xml"); the last call of the
\* sequence is given the input of the first
ParseCall ==
    /\ pc = "parsing"
    /\ \E d \in CallDocs :
          /\ calls.phase = "again" => d = calls.firstDoc
          /\ xmlDoc' = d
    /\ pc' = "parsed"
    /\ UNCHANGED <<ui, calls, visited, elementInfo, elementOrder, stack, emitIdx, xsdString,
                   consoleError, thrown, result>>

\* The call has returned or thrown and generateXsd is called again
NextCall ==
    /\ pc \in {"done", "failed"}
    /\ calls.phase \in {"first", "between"}
    /\ calls' = IF calls.phase = "first"
                THEN [calls EXCEPT !.phase = "between", !.firstDoc = xmlDoc,
                                   !.firstThrown = thrown, !.firstResult = result]
                ELSE [calls EXCEPT !.phase = "again", !.betweenDoc = xmlDoc]
    /\ pc' = "parsing"
    /\ xmlDoc' = NoDoc
    /\ thrown' = <<>>
    /\ result' = <<>>
    /\ UNCHANGED <<ui, visited, elementInfo, elementOrder, stack, emitIdx, xsdString,
                   consoleError>>

NextCalls ==
    \/ ParseCall
    \/ ThrowParseError
    \/ ThrowNoRoot
    \/ StartTraversal
    \/ ProcessNodeEnter
    \/ ProcessChildNode
    \/ ProcessNodeReturn
    \/ EmitPreamble
    \/ EmitGlobalElement
    \/ EmitTypesComment
    \/ EmitComplexType
    \/ Return
    \/ NextCall

SpecCalls == Init /\ [][NextCalls]_vars

\* C12: in a sequence of calls, a call given the input of the first call
\* ends as the first call did: it returns the same text or throws the same
\* error, whatever was converted before it or in between.
C12_SameInputSameOutcome ==
    (calls.phase # "first" /\ pc \in {"done", "failed"} /\ xmlDoc = calls.firstDoc) =>
        /\ thrown = calls.firstThrown
        /\ result = calls.firstResult
        /\ pc = "done" <=> calls.firstResult # <<>>

C12_Witness ==
    /\ calls.phase = "again"
    /\ pc = "done"
    /\ ~calls.betweenDoc.isError
    /\ calls.betweenDoc.nodes # <<>>
    /\ \A i \in 1..Len(calls.betweenDoc.nodes) :
          \A j \in 1..Len(Nodes) : calls.betweenDoc.nodes[i].tagName # Nodes[j].tagName

C12_WitnessError ==
    /\ calls.phase = "again"
    /\ pc = "failed"
    /\ calls.betweenDoc.nodes # <<>>

-----------------------------------------------------------------------------
(* XmlToXsdConverter: the component's handlers, the FileReader callbacks and
   the callback handleConvert defers with setTimeout.  A handler runs to its
   end before the next one starts; the call of generateXsd inside the
   deferred callback takes the steps of generateXsd above, and no handler
   runs until the callback has ended (pc is "idle" between callbacks). *)

\* What the user can type, paste or upload
XmlInputs == {<<>>, <<" ">>, <<"<a><b/></a>">>, <<"<b> x </b>">>, <<"<a>">>}

\* parser.parseFromString(xmlString, "application/xml") on these inputs
ParseFromString(xmlString) ==
    CASE xmlString = <<"<a><b/></a>">> ->
            [isError |-> FALSE, textContent |-> <<>>,
             nodes |-> <<[nodeType |-> ELEMENT_NODE, tagName |-> "a", attributes |-> <<>>,
                          nodeValue |-> <<>>, parent |-> 0],
                         [nodeType |-> ELEMENT_NODE, tagName |-> "b", attributes |-> <<>>,
                          nodeValue |-> <<>>, parent |-> 1]>>]
      [] xmlString = <<"<b> x </b>">> ->
            [isError |-> FALSE, textContent |-> <<>>,
             nodes |-> <<[nodeType |-> ELEMENT_NODE, tagName |-> "b", attributes |-> <<>>,
                          nodeValue |-> <<>>, parent |-> 0],
                         [nodeType |-> TEXT_NODE, tagName |-> "#text", attributes |-> <<>>,
                          nodeValue |-> <<" ", "x", " ">>, parent |-> 1]>>]
      [] OTHER ->
            [isError |-> TRUE, textContent |-> <<"Simulated error", "\n", "Details here">>,
             nodes |-> <<>>]

InitUI ==
    /\ pc = "idle"
    /\ xmlDoc = NoDoc
    /\ elementInfo = <<>>
    /\ elementOrder = <<>>
    /\ stack = <<>>
    /\ emitIdx = 0
    /\ xsdString = <<>>
    /\ consoleError = <<>>
    /\ thrown = <<>>
    /\ result = <<>>
    /\ visited = <<>>
    /\ calls = NoCalls
    /\ ui = InitialUi

\* What no handler of the component writes
GenerateXsdVars ==
    <<pc, xmlDoc, elementInfo, elementOrder, stack, emitIdx, xsdString,
      consoleError, thrown, result, visited, calls>>

\* The i-th element of a sequence taken out
RemoveAt(s, i) == SubSeq(s, 1, i - 1) \o SubSeq(s, i + 1, Len(s))

\* <textarea onChange={handleXmlInputChange}>
HandleXmlInputChange ==
    /\ pc = "idle"
    /\ \E value \in XmlInputs :
          /\ value # ui.xmlInput
          /\ ui' = [ui EXCEPT !.xmlInput = value, !.error = <<>>, !.xsdOutput = <<>>,
                              !.copyStatus = <<>>]
    /\ UNCHANGED GenerateXsdVars

\* <input type="file" onChange={handleFileChange}>: reader.readAsText(file)
HandleFileChange ==
    /\ pc = "idle"
    /\ Len(ui.readers) < MaxReaders
    /\ \E text \in XmlInputs : ui' = [ui EXCEPT !.readers = Append(@, text)]
    /\ UNCHANGED GenerateXsdVars

\* reader.onload
ReaderOnLoad ==
    /\ pc = "idle"
    /\ \E i \in 1..Len(ui.readers) :
          ui' = [ui EXCEPT !.readers = RemoveAt(@, i), !.xmlInput = ui.readers[i],
                           !.error = <<>>, !.xsdOutput = <<>>, !.copyStatus = <<>>]
    /\ UNCHANGED GenerateXsdVars

\* reader.onerror
ReaderOnError ==
    /\ pc = "idle"
    /\ \E i \in 1..Len(ui.readers) :
          ui' = [ui EXCEPT !.readers = RemoveAt(@, i), !.error = <<"Error reading file.">>,
                           !.xmlInput = <<>>]
    /\ UNCHANGED GenerateXsdVars

\* disabled={isLoading || !xmlInput.trim()}
ConvertDisabled == ui.isLoading \/ Trim(ui.xmlInput) = <<>>

\* <button onClick={handleConvert}>
HandleConvert ==
    /\ pc = "idle"
    /\ ~ConvertDisabled
    /\ ui' = IF Trim(ui.xmlInput) = <<>>
             THEN [ui EXCEPT !.error = <<"Please paste or upload XML content.">>]
             ELSE [ui EXCEPT !.isLoading = TRUE, !.error = <<>>, !.xsdOutput = <<>>,
                             !.copyStatus = <<>>,
                             !.timeouts = Append(@, ui.xmlInput)]
    /\ UNCHANGED GenerateXsdVars

\* The deferred callback starts: generateXsd(xmlInput) is called.  Of the
\* console only what this callback logs is kept.
ConvertTimeout ==
    /\ pc = "idle"
    /\ ui.timeouts # <<>>
    /\ pc' = "parsing"
    /\ xmlDoc' = NoDoc
    /\ thrown' = <<>>
    /\ result' = <<>>
    /\ consoleError' = <<>>
    /\ UNCHANGED <<ui, calls, visited, elementInfo, elementOrder, stack, emitIdx, xsdString>>

\* parser.parseFromString(xmlString, "application/xml") inside the callback
ConvertParse ==
    /\ pc = "parsing"
    /\ xmlDoc' = ParseFromString(Head(ui.timeouts))
    /\ pc' = "parsed"
    /\ UNCHANGED <<ui, calls, visited, elementInfo, elementOrder, stack, emitIdx, xsdString,
                   consoleError, thrown, result>>

\* Variant: the callback without its finally block
ConvertCatchNoFinally ==
    /\ pc = "failed"
    /\ consoleError' = Append(consoleError, <<"Conversion Error:", thrown>>)
    /\ ui' = [ui EXCEPT !.error = <<"Conversion failed: ">> \o thrown,
                        !.xsdOutput = <<>>,
                        !.timeouts = Tail(@)]
    /\ pc' = "idle"
    /\ UNCHANGED <<calls, visited, xmlDoc, elementInfo, elementOrder, stack, emitIdx,
                   xsdString, thrown, result>>

\* setXsdOutput(generatedSchema); finally setIsLoading(false)
ConvertReturn ==
    /\ pc = "done"
    /\ ui' = [ui EXCEPT !.xsdOutput = result, !.isLoading = FALSE,
                        !.timeouts = Tail(@), !.convertedInput = Head(ui.timeouts)]
    /\ pc' = "idle"
    /\ UNCHANGED <<calls, visited, xmlDoc, elementInfo, elementOrder, stack, emitIdx,
                   xsdString, consoleError, thrown, result>>

\* catch (err): console.error, setError, setXsdOutput(''); finally
\* setIsLoading(false)
ConvertCatch ==
    /\ pc = "failed"
    /\ consoleError' = Append(consoleError, <<"Conversion Error:", thrown>>)
    /\ ui' = [ui EXCEPT !.error = <<"Conversion failed: ">> \o thrown,
                        !.xsdOutput = <<>>, !.isLoading = FALSE,
                        !.timeouts = Tail(@)]
    /\ pc' = "idle"
    /\ UNCHANGED <<calls, visited, xmlDoc, elementInfo, elementOrder, stack, emitIdx,
                   xsdString, thrown, result>>

\* The steps of the deferred callback
Conversion ==
    \/ ConvertTimeout
    \/ ConvertParse
    \/ ThrowParseError
    \/ StartTraversal
    \/ ProcessNodeEnter
    \/ ProcessChildNode
    \/ ProcessNodeReturn
    \/ EmitPreamble
    \/ EmitGlobalElement
    \/ EmitTypesComment
    \/ EmitComplexType
    \/ Return
    \/ ConvertReturn
    \/ ConvertCatch

NextUI ==
    \/ HandleXmlInputChange
    \/ HandleFileChange
    \/ ReaderOnLoad
    \/ ReaderOnError
    \/ HandleConvert
    \/ Conversion

SpecUI == InitUI /\ [][NextUI]_vars

\* The event loop runs a due timeout, and a callback runs to its end
SpecUILive == SpecUI /\ WF_vars(Conversion)

-----------------------------------------------------------------------------
(* The conversions of the component *)

\* A conversion has been started and its callback has not ended
Converting == ui.timeouts # <<>>

\* C13: every conversion handleConvert starts on a non-blank input ends
\* with isLoading false again, whether generateXsd returns or throws:
\* isLoading is true exactly from the click until the deferred callback has
\* ended, it goes back to false only at the end of the callback, and then
\* xsdOutput is the text generateXsd returned, or error
\* is "Conversion failed: " followed by the message thrown and xsdOutput is
\* empty; and the callback does end.
C13_ConversionEnds ==
    /\ [](/\ ui.isLoading <=> Converting
          /\ Len(ui.timeouts) <= 1
          /\ Converting => Trim(Head(ui.timeouts)) # <<>>
          /\ pc # "idle" => Converting)
    /\ [][/\ (~ui.isLoading /\ ui'.isLoading) =>
                 /\ Trim(ui.xmlInput) # <<>>
                 /\ ui'.timeouts = <<ui.xmlInput>>
          /\ (ui.isLoading /\ ~ui'.isLoading) =>
                 /\ pc \in {"done", "failed"}
                 /\ xmlDoc = ParseFromString(Head(ui.timeouts))
                 /\ pc = "done" =>
                       /\ result # <<>>
                       /\ ui'.xsdOutput = result
                 /\ pc = "failed" =>
                       /\ thrown # <<>>
                       /\ ui'.error = <<"Conversion failed: ">> \o thrown
                       /\ ui'.xsdOutput = <<>>]_vars
    /\ (ui.isLoading ~> ~ui.isLoading)

\* A conversion that threw has ended
C13_Witness ==
    /\ pc = "idle"
    /\ ~ui.isLoading
    /\ ui.error = <<"Conversion failed: ", "Invalid XML: ", "Details here">>
    /\ ui.xsdOutput = <<>>
    /\ ui.xmlInput = <<"<a>">>

C13_WitnessSuccess ==
    /\ pc = "idle"
    /\ ~ui.isLoading
    /\ ui.xsdOutput # <<>>
    /\ ui.xsdOutput = result
    /\ ui.error = <<>>

\* C19: whatever the interleaving of typing, file loads, convert clicks and
\* the deferred callback, a schema that is shown was generated from the
\* input that is shown: xsdOutput is never left over from an input that has
\* been changed or cleared since.
C19_OutputOfCurrentInput ==
    ui.xsdOutput # <<>> => ui.convertedInput = ui.xmlInput

====
